---- MODULE Spec2Model ----
(***************************************************************************)
(* Model of the aws-app-sync component: the orchestrator AwsAppSync.default *)
(* / AwsAppSync.remove and the reconcilers it sequences (graphql api,       *)
(* service role, data sources, schema, resolvers, functions, api keys and   *)
(* the removeObsolete* steps), run against a provider whose calls may fail. *)
(***************************************************************************)
EXTENDS Integers, Sequences, FiniteSets, TLC

(***************************************************************************)
(* Bounds of the model.                                                     *)
(***************************************************************************)
\* number of runs of default / remove in one behaviour
MaxRuns == 2
\* number of getSchemaCreationStatus polls that answer a non-terminal status
MaxPolls == 1
\* number of external deletions (drift) in one behaviour
MaxDrift == 1

(***************************************************************************)
(* Values.                                                                  *)
(***************************************************************************)
\* JavaScript undefined, for string-valued fields
Nil == "nil"
\* undefined identifier (functionId / api key id / apiId not assigned)
NoId == 0
\* undefined, for list- and number-valued fields
None == <<>>

\* the limb of the two-limb representation <<hi, lo>> of a JavaScript number:
\* value = hi * Limb + lo, 0 <= lo < Limb (TLC integers have 32 bits, epoch
\* milliseconds do not fit)
Limb == 1000000

Range(s) == {s[i] : i \in 1..Len(s)}

(***************************************************************************)
(* Diff primitives and file helpers (lib/index of the repository).          *)
(***************************************************************************)
\* find(pred, list) of ramda on a list of records: the index of the first
\* element of s in the set hits, 0 when there is none
FirstIndex(s, hits) ==
    IF \E i \in 1..Len(s) : s[i] \in hits
    THEN CHOOSE i \in 1..Len(s) : s[i] \in hits /\ \A j \in 1..(i - 1) : s[j] \notin hits
    ELSE 0

\* checkForDuplicates(keys, list): the list of projections onto keys holds the
\* same projection twice
checkForDuplicates(projections) ==
    \E i, j \in 1..Len(projections) : i < j /\ projections[i] = projections[j]

\* difference(listA, listB) of ramda: the elements of listA that are not in
\* listB, each once, in the order of their first occurrence
RECURSIVE difference(_, _)
difference(listA, listB) ==
    IF listA = <<>> THEN <<>>
    ELSE LET front == SubSeq(listA, 1, Len(listA) - 1)
             last  == listA[Len(listA)]
             rest  == difference(front, listB)
         IN IF last \in Range(listB) \/ last \in Range(front) THEN rest
            ELSE Append(rest, last)

\* the source root config.src and path.join(config.src, file)
SrcRoot == "src"
PathJoin(root, file) == <<root, file>>

\* the files under the source root: mapping templates and schemas
Files ==
    (<<SrcRoot, "q1.vtl">> :> "REQ1") @@ (<<SrcRoot, "q2.vtl">> :> "REQ2") @@
    (<<SrcRoot, "p1.vtl">> :> "RES1") @@ (<<SrcRoot, "p2.vtl">> :> "RES2") @@
    (<<SrcRoot, "schema.graphql">> :> "type Query { a: Int }") @@
    (<<SrcRoot, "other.graphql">> :> "type Query { b: Int }")

\* readIfFile(path): the text of the file, the last path segment when no such
\* file exists
readIfFile(p) == IF p \in DOMAIN Files THEN Files[p] ELSE p[2]

\* checksum(text): a stable hash of the text
checksum(text) ==
    CASE text = "type Query { a: Int }" -> "c-a"
      [] text = "type Query { b: Int }" -> "c-b"
      [] OTHER -> "c-other"

(***************************************************************************)
(* Desired configuration (the inputs of default).                           *)
(***************************************************************************)
\* a desired function of inputs.functions; the fields the reconciler adds
\* later are undefined
Fn(name, dataSource, request, response) ==
    [name |-> name, dataSource |-> dataSource, request |-> request, response |-> response,
     requestMappingTemplate |-> Nil, responseMappingTemplate |-> Nil,
     dataSourceName |-> Nil, mode |-> Nil, functionId |-> NoId]

\* a desired api key of inputs.apiKeys after formatInputApiKeys; expires is
\* None or a number <<hi, lo>>
Key(name, description, expires) ==
    [name |-> name, description |-> description, expires |-> expires]

\* a desired data source
Ds(name, type, serviceRoleArn) ==
    [name |-> name, type |-> type, serviceRoleArn |-> serviceRoleArn]

\* a desired resolver (mapping template)
Res(type, field, request) == [type |-> type, field |-> field, request |-> request]

Inputs(name, auth, dataSources, schema, isApiCreator, mappingTemplates, functions, apiKeys) ==
    [name |-> name, authenticationType |-> auth, dataSources |-> dataSources,
     schema |-> schema, isApiCreator |-> isApiCreator,
     mappingTemplates |-> mappingTemplates, functions |-> functions, apiKeys |-> apiKeys]

(***************************************************************************)
(* State of the component and of the provider.                              *)
(***************************************************************************)
VARIABLES
    state,    \* this.state as last saved: the persisted state
    config,   \* the config object of the run in progress
    pc,       \* the position of default / remove: "idle" between runs
    remote,   \* the provider: apis, data sources, schemas, resolvers, functions, api keys, roles
    calls,    \* the provider calls issued by the current (or last) run, in order
    run,      \* record of the current (or last) run: inputs, state read, result, classifications
    prev,     \* summary of the run before it
    runs,     \* number of runs started
    polls,    \* number of non-terminal schema creation statuses answered in this run
    drifts    \* number of external deletions

vars == <<state, config, pc, remote, calls, run, prev, runs, polls, drifts>>

\* this.state of a component never deployed, and after remove: {}
EmptyState ==
    [apiId |-> NoId, schemaChecksum |-> Nil, apiKeys |-> <<>>, dataSources |-> <<>>,
     mappingTemplates |-> <<>>, functions |-> <<>>]

NoInputs == Inputs(Nil, Nil, <<>>, Nil, FALSE, <<>>, <<>>, <<>>)

NoConfig ==
    [apiId |-> NoId, name |-> Nil, authenticationType |-> Nil, dataSources |-> <<>>,
     schema |-> Nil, isApiCreator |-> FALSE, mappingTemplates |-> <<>>,
     functions |-> <<>>, apiKeys |-> <<>>, schemaChecksum |-> Nil,
     serviceRole |-> [arn |-> Nil, roleArn |-> Nil], localChecksum |-> Nil]

NoRun ==
    [op |-> Nil, inputs |-> NoInputs, startState |-> EmptyState, result |-> "none",
     error |-> Nil, failedAt |-> Nil, drift |-> FALSE,
     functionModes |-> <<>>, apiKeyModes |-> <<>>, schemaText |-> Nil,
     schemaStatus |-> Nil, steps |-> <<>>,
     createdFunctions |-> {}, createdApiKeys |-> {}, deployedApiKeys |-> {},
     deployedFunctions |-> {}, functionsToDeploy |-> <<>>, apiKeysToDeploy |-> <<>>,
     graphqlApis |-> {}]

EmptyRemote ==
    [apis |-> {}, dataSources |-> {}, schemas |-> {}, resolvers |-> {},
     functions |-> {}, apiKeys |-> {}, roles |-> {}, nextId |-> 1,
     schemaCreation |-> [apiId |-> NoId, definition |-> Nil]]

\* what is kept of a run once the next one starts
Summary(r) ==
    [op |-> r.op, inputs |-> r.inputs, result |-> r.result, drift |-> r.drift,
     createdFunctions |-> r.createdFunctions, createdApiKeys |-> r.createdApiKeys]

Init ==
    /\ state = EmptyState
    /\ config = NoConfig
    /\ pc = "idle"
    /\ remote = EmptyRemote
    /\ calls = <<>>
    /\ run = NoRun
    /\ prev = Summary(NoRun)
    /\ runs = 0
    /\ polls = 0
    /\ drifts = 0

\* a provider call as logged: the operation, the name of the item it is about,
\* the identifier sent (NoId when none), the expires sent (None when none) and,
\* for a delete call, what the provider answered
Call(op, name, id) ==
    [op |-> op, name |-> name, id |-> id, expires |-> None, answer |-> "ok"]

\* a createApiKey / updateApiKey call with the expires it sends
WithExpires(call, expires) == [call EXCEPT !.expires = expires]

\* a call with the error code the provider answered
Answered(call, code) == [call EXCEPT !.answer = IF code = Nil THEN "ok" ELSE code]

\* the result of one awaited step: the error thrown (Nil when none), the
\* calls issued, the provider afterwards and the value returned
Result(error, issued, rem, value) ==
    [error |-> error, calls |-> issued, remote |-> rem, value |-> value]

\* Continue with the rejection swallowed: the error is noted and default goes on
ContinueSwallowing(r, next, newConfig, newRun) ==
    /\ calls' = calls \o r.calls
    /\ remote' = r.remote
    /\ state' = state
    /\ UNCHANGED <<prev, runs, polls, drifts>>
    /\ pc' = next
    /\ config' = newConfig
    /\ run' = IF r.error # Nil
              THEN [newRun EXCEPT !.error = r.error, !.failedAt = pc]
              ELSE [newRun EXCEPT !.steps = Append(@, pc)]

\* the continuation of an awaited step of default: a rejected promise ends the
\* run (nothing after the await runs, this.state is not assigned), a resolved
\* one continues at next with the config as updated
Continue(r, next, newConfig, newRun) ==
    /\ calls' = calls \o r.calls
    /\ remote' = r.remote
    /\ state' = state
    /\ UNCHANGED <<prev, runs, polls, drifts>>
    /\ IF r.error # Nil
       THEN /\ pc' = "idle"
            /\ config' = config
            /\ run' = [newRun EXCEPT !.result = "failed", !.error = r.error, !.failedAt = pc]
       ELSE /\ pc' = next
            /\ config' = newConfig
            /\ run' = [newRun EXCEPT !.steps = Append(@, pc)]

(***************************************************************************)
(* AwsAppSync.default: the start of a run.                                  *)
(***************************************************************************)
\* mergeDeepRight(merge(defaults, {apiId: this.state.apiId}), inputs)
StartRun(inputs) ==
    /\ pc = "idle"
    /\ runs < MaxRuns
    /\ runs' = runs + 1
    /\ pc' = "createOrUpdateGraphqlApi"
    /\ config' = [NoConfig EXCEPT
                    !.apiId = state.apiId, !.name = inputs.name,
                    !.authenticationType = inputs.authenticationType,
                    !.dataSources = inputs.dataSources, !.schema = inputs.schema,
                    !.isApiCreator = inputs.isApiCreator,
                    !.mappingTemplates = inputs.mappingTemplates,
                    !.functions = inputs.functions, !.apiKeys = inputs.apiKeys]
    /\ calls' = <<>>
    /\ polls' = 0
    /\ prev' = Summary(run)
    /\ run' = [NoRun EXCEPT !.op = "default", !.inputs = inputs, !.startState = state,
                            !.result = "running"]
    /\ UNCHANGED <<state, remote, drifts>>

(***************************************************************************)
(* createOrUpdateGraphqlApi                                                 *)
(***************************************************************************)
NoApi == [apiId |-> NoId, name |-> Nil, authenticationType |-> Nil]

\* pick(inputFields, x): the input fields of a config or of a deployed api
ApiInputFields(x) == [name |-> x.name, authenticationType |-> x.authenticationType]

\* the provider calls of createOrUpdateGraphqlApi that may be rejected
ApiFailPoints ==
    {"none", "getGraphqlApi", "listGraphqlApis", "createGraphqlApi", "updateGraphqlApi"}

\* createOrUpdateGraphqlApi that looks nothing up and creates an api
createOrUpdateGraphqlApiUnlooked(cfg, rem, fail) ==
    LET created == [apiId |-> rem.nextId, name |-> cfg.name,
                    authenticationType |-> cfg.authenticationType]
    IN  IF fail # "none"
        THEN Result("Other", <<Call(fail, cfg.name, cfg.apiId)>>, rem, NoApi)
        ELSE Result(Nil, <<Call("createGraphqlApi", cfg.name, NoId)>>,
                    [rem EXCEPT !.apis = @ \cup {created}, !.nextId = @ + 1], created)

\* createOrUpdateGraphqlApi(appSync, config): fail names the call the provider
\* rejects with an error other than NotFoundException
createOrUpdateGraphqlApi(cfg, rem, fail) ==
    LET inputs   == ApiInputFields(cfg)
        doGet    == cfg.apiId # NoId
        byId     == {a \in rem.apis : a.apiId = cfg.apiId}
        getCalls == IF doGet THEN <<Call("getGraphqlApi", cfg.name, cfg.apiId)>> ELSE <<>>
        fetched  == IF doGet /\ byId # {} THEN CHOOSE a \in byId : TRUE ELSE NoApi
        doList   == fetched = NoApi
        byName   == {a \in rem.apis : a.name = cfg.name}
        listed   == IF byName # {}
                    THEN CHOOSE a \in byName : \A b \in byName : a.apiId <= b.apiId
                    ELSE NoApi
        graphqlApi == IF doList THEN listed ELSE fetched
        apiId    == IF doList /\ listed # NoApi THEN listed.apiId ELSE cfg.apiId
        listCalls == IF doList THEN <<Call("listGraphqlApis", cfg.name, NoId)>> ELSE <<>>
        lookup   == getCalls \o listCalls
        created  == [apiId |-> rem.nextId, name |-> inputs.name,
                     authenticationType |-> inputs.authenticationType]
        updated  == [apiId |-> apiId, name |-> inputs.name,
                     authenticationType |-> inputs.authenticationType]
    IN  IF doGet /\ fail = "getGraphqlApi"
        THEN Result("Other", getCalls, rem, NoApi)
        ELSE IF doList /\ fail = "listGraphqlApis"
        THEN Result("Other", lookup, rem, NoApi)
        ELSE IF graphqlApi = NoApi
        THEN IF fail = "createGraphqlApi"
             THEN Result("Other", Append(lookup, Call("createGraphqlApi", cfg.name, NoId)),
                         rem, NoApi)
             ELSE Result(Nil, Append(lookup, Call("createGraphqlApi", cfg.name, NoId)),
                         [rem EXCEPT !.apis = @ \cup {created}, !.nextId = @ + 1], created)
        ELSE IF inputs # ApiInputFields(graphqlApi)
        THEN IF fail = "updateGraphqlApi"
             THEN Result("Other", Append(lookup, Call("updateGraphqlApi", cfg.name, apiId)),
                         rem, NoApi)
             ELSE Result(Nil, Append(lookup, Call("updateGraphqlApi", cfg.name, apiId)),
                         [rem EXCEPT !.apis = (@ \ {graphqlApi}) \cup {updated}], updated)
        ELSE Result(Nil, lookup, rem, graphqlApi)

\* default, line 28-31: await createOrUpdateGraphqlApi, then config.apiId
CreateOrUpdateGraphqlApi ==
    /\ pc = "createOrUpdateGraphqlApi"
    /\ \E fail \in ApiFailPoints :
         LET r == createOrUpdateGraphqlApi(config, remote, fail)
         IN  /\ fail # "none" => r.error # Nil
             /\ Continue(r, "createServiceRole", [config EXCEPT !.apiId = r.value.apiId],
                         [run EXCEPT !.graphqlApis = remote.apis])

RECURSIVE Concat(_)
\* the concatenation of a sequence of sequences
Concat(ss) == IF ss = <<>> THEN <<>> ELSE Head(ss) \o Concat(Tail(ss))

\* the least element of a non-empty set of integers, 0 for the empty set
Least(S) == IF S = {} THEN 0 ELSE CHOOSE x \in S : \A y \in S : x <= y

(***************************************************************************)
(* createServiceRole / createRole                                           *)
(***************************************************************************)
\* the ARN of the role that createRole creates
SynthesizedRoleArn == "arn:aws:iam::role/api-role"

\* the statements of createServiceRole: one entry per type of the data
\* sources that have no serviceRoleArn (reduce, toPairs, map, flatten)
Statements(dataSources) ==
    LET needy == {i \in 1..Len(dataSources) : dataSources[i].serviceRoleArn = Nil}
        first == {i \in needy : \A j \in needy : dataSources[j].type = dataSources[i].type => i <= j}
    IN  [k \in 1..Cardinality(first) |->
           dataSources[CHOOSE i \in first : Cardinality({j \in first : j <= i}) = k].type]

\* `if (statements)`: an array is truthy in JavaScript, also when it is empty
Truthy(array) == array = array

RoleFailPoints == {"none", "createRole", "createPolicy", "attachRolePolicy"}

\* createServiceRole(iam, inputs): returns {roleArn, policyArn} of createRole,
\* or {} ; the value carries the arn field that default reads (never set)
createServiceRole(cfg, rem, fail) ==
    LET statements == Statements(cfg.dataSources)
        c1 == <<Call("createRole", cfg.name, NoId)>>
        c2 == Append(c1, Call("createPolicy", cfg.name, NoId))
        c3 == Append(c2, Call("attachRolePolicy", cfg.name, NoId))
        withRole == [rem EXCEPT !.roles = @ \cup {cfg.name}]
    IN  IF Truthy(statements)
        THEN IF fail = "createRole" THEN Result("Other", c1, rem, [arn |-> Nil, roleArn |-> Nil])
             ELSE IF fail = "createPolicy"
                  THEN Result("Other", c2, withRole, [arn |-> Nil, roleArn |-> Nil])
             ELSE IF fail = "attachRolePolicy"
                  THEN Result("Other", c3, withRole, [arn |-> Nil, roleArn |-> Nil])
             ELSE Result(Nil, c3, withRole, [arn |-> Nil, roleArn |-> SynthesizedRoleArn])
        ELSE Result(Nil, <<>>, rem, [arn |-> Nil, roleArn |-> Nil])

\* default, line 36-41: a data source without serviceRoleArn gets serviceRole.arn
StampServiceRole(dataSources, serviceRole) ==
    [i \in 1..Len(dataSources) |->
       IF dataSources[i].serviceRoleArn = Nil
       THEN [dataSources[i] EXCEPT !.serviceRoleArn = serviceRole.arn]
       ELSE dataSources[i]]

\* default, line 33-41
CreateServiceRole ==
    /\ pc = "createServiceRole"
    /\ \E fail \in RoleFailPoints :
         LET r == createServiceRole(config, remote, fail)
         IN  /\ fail # "none" => r.error # Nil
             /\ Continue(r, "createOrUpdateDataSources",
                         [config EXCEPT !.serviceRole = r.value,
                                        !.dataSources = StampServiceRole(@, r.value)],
                         run)

(***************************************************************************)
(* Reconcilers of data sources and resolvers (lib/datasources,              *)
(* lib/resolvers): the generic pattern of the reconcilers.                  *)
(***************************************************************************)
\* the points where a reconciler may be rejected by the provider: its listing,
\* or the first create / update call it issues
ReconcilerFailPoints == {"none", "list", "mutate"}

createOrUpdateDataSources(cfg, rem, fail) ==
    LET desired  == cfg.dataSources
        n        == Len(desired)
        deployed == {d \in rem.dataSources : d.apiId = cfg.apiId}
        match(i) == {d \in deployed : d.name = desired[i].name}
        target(i) == [apiId |-> cfg.apiId, name |-> desired[i].name, type |-> desired[i].type,
                      serviceRoleArn |-> desired[i].serviceRoleArn]
        mode(i)  == IF match(i) = {} THEN "create"
                    ELSE IF target(i) \notin match(i) THEN "update" ELSE "ignore"
        mutating == {i \in 1..n : mode(i) # "ignore"}
        failing  == IF fail = "mutate" THEN Least(mutating) ELSE 0
        listing  == <<Call("listDataSources", Nil, NoId)>>
        issued   == Concat([i \in 1..n |->
                      IF mode(i) = "create" THEN <<Call("createDataSource", desired[i].name, NoId)>>
                      ELSE IF mode(i) = "update" THEN <<Call("updateDataSource", desired[i].name, NoId)>>
                      ELSE <<>>])
        applied  == mutating \ {failing}
        after    == (rem.dataSources \ UNION {match(i) : i \in applied})
                    \cup {target(i) : i \in applied}
    IN  IF checkForDuplicates([i \in 1..n |-> desired[i].name])
        THEN Result("ConfigurationError", <<>>, rem, desired)
        ELSE IF fail = "list" THEN Result("Other", listing, rem, desired)
        ELSE Result(IF failing # 0 THEN "Other" ELSE Nil, listing \o issued,
                    [rem EXCEPT !.dataSources = after], desired)

\* default, line 43
CreateOrUpdateDataSources ==
    /\ pc = "createOrUpdateDataSources"
    /\ \E fail \in ReconcilerFailPoints :
         LET r == createOrUpdateDataSources(config, remote, fail)
         IN  /\ fail # "none" => r.error = "Other"
             /\ Continue(r, "createSchema", [config EXCEPT !.dataSources = r.value], run)

createOrUpdateResolvers(cfg, rem, fail) ==
    LET desired  == cfg.mappingTemplates
        n        == Len(desired)
        deployed == {d \in rem.resolvers : d.apiId = cfg.apiId}
        match(i) == {d \in deployed : d.type = desired[i].type /\ d.field = desired[i].field}
        target(i) == [apiId |-> cfg.apiId, type |-> desired[i].type, field |-> desired[i].field,
                      requestMappingTemplate |->
                          readIfFile(PathJoin(SrcRoot, desired[i].request))]
        mode(i)  == IF match(i) = {} THEN "create"
                    ELSE IF target(i) \notin match(i) THEN "update" ELSE "ignore"
        mutating == {i \in 1..n : mode(i) # "ignore"}
        failing  == IF fail = "mutate" THEN Least(mutating) ELSE 0
        listing  == <<Call("listResolvers", Nil, NoId)>>
        issued   == Concat([i \in 1..n |->
                      IF mode(i) = "create" THEN <<Call("createResolver", desired[i].field, NoId)>>
                      ELSE IF mode(i) = "update" THEN <<Call("updateResolver", desired[i].field, NoId)>>
                      ELSE <<>>])
        applied  == mutating \ {failing}
        after    == (rem.resolvers \ UNION {match(i) : i \in applied})
                    \cup {target(i) : i \in applied}
    IN  IF checkForDuplicates([i \in 1..n |-> <<desired[i].type, desired[i].field>>])
        THEN Result("ConfigurationError", <<>>, rem, desired)
        ELSE IF fail = "list" THEN Result("Other", listing, rem, desired)
        ELSE Result(IF failing # 0 THEN "Other" ELSE Nil, listing \o issued,
                    [rem EXCEPT !.resolvers = after], desired)

\* default, line 45
CreateOrUpdateResolvers ==
    /\ pc = "createOrUpdateResolvers"
    /\ \E fail \in ReconcilerFailPoints :
         LET r == createOrUpdateResolvers(config, remote, fail)
         IN  /\ fail # "none" => r.error = "Other"
             /\ Continue(r, "createOrUpdateFunctions",
                         [config EXCEPT !.mappingTemplates = r.value], run)

(***************************************************************************)
(* createSchema                                                             *)
(***************************************************************************)
\* the statuses getSchemaCreationStatus answers, and those that end the polling
SchemaStatuses == {"PROCESSING", "SUCCESS", "FAILED", "NOT_APPLICABLE"}
\* TerminalStatuses with SUCCESS alone ending the polling
OnlySuccess == {"SUCCESS"}
TerminalStatuses == {"FAILED", "SUCCESS", "NOT_APPLICABLE"}

\* createSchema line 263-273: the schema text, Nil when schema management is
\* skipped (no schema given and the caller is not the api creator)
ResolvedSchema(cfg) ==
    IF cfg.schema = Nil
    THEN IF ~cfg.isApiCreator THEN Nil
         ELSE readIfFile(PathJoin(SrcRoot, "schema.graphql"))
    ELSE readIfFile(PathJoin(SrcRoot, cfg.schema))

\* the value createSchema returns when it skips schema management (line 267)
SkippedSchemaChecksum(st) == Nil

\* createSchema without the comparison of the checksums: a schema is always submitted
createSchemaAlways(cfg, st, rem, fail) ==
    LET schema         == ResolvedSchema(cfg)
        schemaChecksum == checksum(schema)
        start          == <<Call("startSchemaCreation", schemaChecksum, cfg.apiId)>>
    IN  IF schema = Nil
        THEN Result(Nil, <<>>, rem, [checksum |-> SkippedSchemaChecksum(st), submitted |-> FALSE])
        ELSE IF fail
             THEN Result("Other", start, rem, [checksum |-> schemaChecksum, submitted |-> FALSE])
             ELSE Result(Nil, start,
                         [rem EXCEPT !.schemaCreation = [apiId |-> cfg.apiId, definition |-> schema]],
                         [checksum |-> schemaChecksum, submitted |-> TRUE])

\* createSchema up to its first await: value is the checksum to return, and
\* value.submitted tells whether startSchemaCreation was called
createSchema(cfg, st, rem, fail) ==
    LET schema         == ResolvedSchema(cfg)
        schemaChecksum == checksum(schema)
        start          == <<Call("startSchemaCreation", schemaChecksum, cfg.apiId)>>
    IN  IF schema = Nil
        THEN Result(Nil, <<>>, rem, [checksum |-> SkippedSchemaChecksum(st), submitted |-> FALSE])
        ELSE IF schemaChecksum # st.schemaChecksum
        THEN IF fail
             THEN Result("Other", start, rem, [checksum |-> schemaChecksum, submitted |-> FALSE])
             ELSE Result(Nil, start,
                         [rem EXCEPT !.schemaCreation = [apiId |-> cfg.apiId, definition |-> schema]],
                         [checksum |-> schemaChecksum, submitted |-> TRUE])
        ELSE Result(Nil, <<>>, rem, [checksum |-> schemaChecksum, submitted |-> FALSE])

\* CreateSchema that does not wait for the schema creation it submitted
CreateSchemaNotAwaited ==
    /\ pc = "createSchema"
    /\ \E fail \in BOOLEAN :
         LET r == createSchema(config, state, remote, fail)
         IN  /\ fail => r.error # Nil
             /\ Continue(r, "createOrUpdateResolvers",
                         [config EXCEPT !.schemaChecksum = r.value.checksum],
                         [run EXCEPT !.schemaText = ResolvedSchema(config)])

\* default, line 44, up to the first poll of createSchema
CreateSchema ==
    /\ pc = "createSchema"
    /\ \E fail \in BOOLEAN :
         LET r == createSchema(config, state, remote, fail)
         IN  /\ fail => r.error # Nil
             /\ Continue(r,
                         IF r.value.submitted THEN "getSchemaCreationStatus"
                         ELSE "createOrUpdateResolvers",
                         IF r.value.submitted
                         THEN [config EXCEPT !.localChecksum = r.value.checksum]
                         ELSE [config EXCEPT !.schemaChecksum = r.value.checksum],
                         [run EXCEPT !.schemaText = ResolvedSchema(config)])

\* one iteration of the do-while loop of createSchema (line 285-293): the
\* status answered ends the loop when it is terminal; "error" is a rejected call
GetSchemaCreationStatus ==
    /\ pc = "getSchemaCreationStatus"
    /\ \E status \in SchemaStatuses \cup {"error"} :
         /\ status \notin TerminalStatuses \cup {"error"} => polls < MaxPolls
         /\ polls' = IF status \in TerminalStatuses \cup {"error"} THEN polls ELSE polls + 1
         /\ calls' = Append(calls, Call("getSchemaCreationStatus", status, config.apiId))
         /\ remote' = IF status = "SUCCESS"
                      THEN [remote EXCEPT !.schemas =
                              {s \in @ : s.apiId # config.apiId} \cup {remote.schemaCreation}]
                      ELSE remote
         /\ pc' = IF status = "error" THEN "idle"
                  ELSE IF status \in TerminalStatuses THEN "createOrUpdateResolvers"
                  ELSE "getSchemaCreationStatus"
         /\ config' = IF status \in TerminalStatuses
                      THEN [config EXCEPT !.schemaChecksum = config.localChecksum]
                      ELSE config
         /\ run' = IF status = "error"
                   THEN [run EXCEPT !.result = "failed", !.error = "Other", !.failedAt = pc]
                   ELSE IF status \in TerminalStatuses
                   THEN [run EXCEPT !.schemaStatus = status, !.steps = Append(@, pc)]
                   ELSE [run EXCEPT !.schemaStatus = status]
         /\ UNCHANGED <<state, prev, runs, drifts>>

(***************************************************************************)
(* createOrUpdateFunctions / removeObsoleteFunctions                        *)
(***************************************************************************)
NoFunction ==
    [apiId |-> NoId, functionId |-> NoId, name |-> Nil, dataSourceName |-> Nil,
     requestMappingTemplate |-> Nil, responseMappingTemplate |-> Nil]

\* equalsByKeys(keys, a, b): a and b agree on every field of keys
equalsByKeys(keys, a, b) == \A k \in keys : a[k] = b[k]

\* line 22-34: each desired function with its templates read
functionsWithTemplates(cfg) ==
    [i \in 1..Len(cfg.functions) |->
       [cfg.functions[i] EXCEPT
          !.requestMappingTemplate = readIfFile(PathJoin(SrcRoot, cfg.functions[i].request)),
          !.responseMappingTemplate = readIfFile(PathJoin(SrcRoot, cfg.functions[i].request)),
          !.dataSourceName = cfg.functions[i].dataSource]]

\* line 37-41: find by name and dataSourceName in the listing (the listing is
\* in the order of the identifiers)
DeployedFunction(func, deployedFunctions) ==
    LET hits == {d \in deployedFunctions :
                   d.name = func.name /\ d.dataSourceName = func.dataSourceName}
    IN  IF hits = {} THEN NoFunction
        ELSE CHOOSE d \in hits : \A e \in hits : d.functionId <= e.functionId

\* line 42-49: the mode of a desired function
FunctionMode(func, deployedFunction) ==
    LET functionEquals ==
            IF deployedFunction = NoFunction THEN FALSE
            ELSE equalsByKeys({"dataSourceName", "name", "responseMappingTemplate",
                               "requestMappingTemplate"}, deployedFunction, func)
    IN  IF ~functionEquals
        THEN (IF deployedFunction = NoFunction THEN "create" ELSE "update")
        ELSE "ignore"

\* functionsToDeploy that classifies the functions and binds no functionId
functionsToDeployUnbound(cfg, deployedFunctions) ==
    LET withTemplates == functionsWithTemplates(cfg)
    IN  [i \in 1..Len(withTemplates) |->
           LET deployedFunction == DeployedFunction(withTemplates[i], deployedFunctions)
           IN  [withTemplates[i] EXCEPT
                  !.mode = FunctionMode(withTemplates[i], deployedFunction)]]

\* line 36-54
functionsToDeploy(cfg, deployedFunctions) ==
    LET withTemplates == functionsWithTemplates(cfg)
    IN  [i \in 1..Len(withTemplates) |->
           LET deployedFunction == DeployedFunction(withTemplates[i], deployedFunctions)
           IN  [withTemplates[i] EXCEPT
                  !.mode = FunctionMode(withTemplates[i], deployedFunction),
                  !.functionId = deployedFunction.functionId]]

\* line 58-66: the function as sent to createFunction / updateFunction
FunctionParams(apiId, func, functionId) ==
    [apiId |-> apiId, functionId |-> functionId, name |-> func.name,
     dataSourceName |-> func.dataSource,
     requestMappingTemplate |-> func.requestMappingTemplate,
     responseMappingTemplate |-> func.responseMappingTemplate]

RECURSIVE deployFunctions(_, _, _, _)
\* line 56-77: the create / update calls of the functions to deploy, issued in
\* the order of the list; rejected[i] tells that the provider rejects the call
\* of item i. Every call is issued, also after a rejected one (Promise.all of
\* calls already started).
deployFunctions(items, rejected, rem, apiId) ==
    IF items = <<>> THEN Result(Nil, <<>>, rem, <<>>)
    ELSE
      LET n      == Len(items)
          before == deployFunctions(SubSeq(items, 1, n - 1), rejected, rem, apiId)
          func   == items[n]
          r      == before.remote
          old    == {d \in r.functions : d.apiId = apiId /\ d.functionId = func.functionId}
      IN  IF func.mode = "create"
          THEN IF rejected[n]
               THEN Result("Other", Append(before.calls, Call("createFunction", func.name, NoId)),
                           r, Append(before.value, func))
               ELSE Result(before.error,
                           Append(before.calls, Call("createFunction", func.name, NoId)),
                           [r EXCEPT !.functions = @ \cup {FunctionParams(apiId, func, r.nextId)},
                                     !.nextId = @ + 1],
                           Append(before.value, [func EXCEPT !.functionId = r.nextId]))
          ELSE IF func.mode = "update"
          THEN IF rejected[n] \/ old = {}
               THEN Result(IF rejected[n] THEN "Other" ELSE "NotFoundException",
                           Append(before.calls, Call("updateFunction", func.name, func.functionId)),
                           r, Append(before.value, func))
               ELSE Result(before.error,
                           Append(before.calls, Call("updateFunction", func.name, func.functionId)),
                           [r EXCEPT !.functions =
                              (@ \ old) \cup {FunctionParams(apiId, func, func.functionId)}],
                           Append(before.value, func))
          ELSE Result(before.error, before.calls, r, Append(before.value, func))

\* createOrUpdateFunctions without checkForDuplicates
createOrUpdateFunctionsUnchecked(cfg, rem, failList, rejected) ==
    LET listing == <<Call("listFunctions", Nil, NoId)>>
        deployedFunctions == {d \in rem.functions : d.apiId = cfg.apiId}
        toDeploy == functionsToDeploy(cfg, deployedFunctions)
        done == deployFunctions(toDeploy, rejected, rem, cfg.apiId)
    IN  IF failList THEN Result("Other", listing, rem, cfg.functions)
        ELSE Result(done.error, listing \o done.calls, done.remote, done.value)

\* createOrUpdateFunctions(appSync, config): failList tells that listFunctions
\* is rejected
createOrUpdateFunctions(cfg, rem, failList, rejected) ==
    LET listing == <<Call("listFunctions", Nil, NoId)>>
        deployedFunctions == {d \in rem.functions : d.apiId = cfg.apiId}
        toDeploy == functionsToDeploy(cfg, deployedFunctions)
        done == deployFunctions(toDeploy, rejected, rem, cfg.apiId)
    IN  IF checkForDuplicates([i \in 1..Len(cfg.functions) |->
                                 <<cfg.functions[i].name, cfg.functions[i].dataSource>>])
        THEN Result("ConfigurationError", <<>>, rem, cfg.functions)
        ELSE IF failList THEN Result("Other", listing, rem, cfg.functions)
        ELSE Result(done.error, listing \o done.calls, done.remote, done.value)

\* the modes of the items of a list returned by a reconciler, <<>> when the
\* reconciler threw before it classified them
Modes(items) ==
    IF \E i \in 1..Len(items) : items[i].mode = Nil THEN <<>>
    ELSE [i \in 1..Len(items) |-> items[i].mode]

\* the mode and the functionId that each function to deploy carries before the
\* create / update calls are issued
BoundFunctions(items) ==
    [i \in 1..Len(items) |->
       [name |-> items[i].name, mode |-> items[i].mode, id |-> items[i].functionId]]

\* default, line 46
CreateOrUpdateFunctions ==
    /\ pc = "createOrUpdateFunctions"
    /\ \E failList \in BOOLEAN, rejected \in [1..Len(config.functions) -> BOOLEAN] :
         LET r == createOrUpdateFunctions(config, remote, failList, rejected)
         IN  /\ failList => (r.error = "Other" /\ \A i \in DOMAIN rejected : ~rejected[i])
             /\ \A i \in DOMAIN rejected :
                  rejected[i] => (Len(r.calls) > 1 /\ r.value[i].mode \in {"create", "update"})
             /\ Continue(r, "createOrUpdateApiKeys", [config EXCEPT !.functions = r.value],
                         [run EXCEPT !.functionModes = Modes(r.value),
                                     !.deployedFunctions =
                                        IF Modes(r.value) = <<>> THEN {}
                                        ELSE {d \in remote.functions : d.apiId = config.apiId},
                                     !.functionsToDeploy =
                                        IF Modes(r.value) = <<>> THEN <<>>
                                        ELSE BoundFunctions(functionsToDeploy(config,
                                               {d \in remote.functions : d.apiId = config.apiId})),
                                     !.createdFunctions =
                                        {<<r.value[i].name, r.value[i].dataSource>> :
                                           i \in {j \in 1..Len(r.value) :
                                                    /\ r.value[j].mode = "create"
                                                    /\ r.value[j].functionId # NoId}}])

(***************************************************************************)
(* createOrUpdateApiKeys / removeObsoleteApiKeys                            *)
(***************************************************************************)
\* JavaScript numbers <<hi, lo>> with value hi * Limb + lo
NumLess(x, y) == x[1] < y[1] \/ (x[1] = y[1] /\ x[2] < y[2])

\* x * 1000
Times1000(x) ==
    LET low == x[2] * 1000
    IN  <<x[1] * 1000 + low \div Limb, low % Limb>>

\* Math.round(x / 1000)
RoundDiv1000(x) ==
    LET low == (x[1] % 1000) * 1000 + x[2] \div 1000 + (IF x[2] % 1000 >= 500 THEN 1 ELSE 0)
    IN  <<x[1] \div 1000 + low \div Limb, low % Limb>>

\* the limit 1000000000000 below which a numeric expires is read as seconds
SecondsLimit == <<1000000, 0>>

\* new Date(x).getTime() of a number of milliseconds (all values of the model
\* are within the range of Date)
DateGetTime(x) == x

\* ExpiresToSend without the normalization: expires is sent as it was given
ExpiresAsGiven(expires) == expires

\* line 69-75: the expires value sent to the provider, None when undefined
ExpiresToSend(expires) ==
    LET dateToParse == IF expires # None /\ NumLess(expires, SecondsLimit)
                       THEN Times1000(expires) ELSE expires
    IN  IF dateToParse # None THEN RoundDiv1000(DateGetTime(dateToParse)) ELSE None

\* the expiry the provider gives a key created without expires
DefaultExpires == <<1800, 0>>

NoApiKey == [name |-> Nil, id |-> NoId, description |-> Nil, expires |-> None]

\* MergeStateApiKeys that keeps the keys of the state the provider no longer holds
MergeStateApiKeysUnfiltered(stateKeys, deployedApiKeys) ==
    [i \in 1..Len(stateKeys) |->
       LET hits == {d \in deployedApiKeys : d.id = stateKeys[i].id}
       IN  IF hits # {}
           THEN LET deployedApiKey == CHOOSE d \in hits : TRUE
                IN  [name |-> stateKeys[i].name, id |-> deployedApiKey.id,
                     description |-> deployedApiKey.description,
                     expires |-> deployedApiKey.expires]
           ELSE [name |-> stateKeys[i].name, id |-> stateKeys[i].id,
                 description |-> Nil, expires |-> None]]

RECURSIVE MergeStateApiKeys(_, _)
\* line 36-46: the api keys of the state that are still deployed, each merged
\* with the deployed key of its id
MergeStateApiKeys(stateKeys, deployedApiKeys) ==
    IF stateKeys = <<>> THEN <<>>
    ELSE LET n    == Len(stateKeys)
             acc  == MergeStateApiKeys(SubSeq(stateKeys, 1, n - 1), deployedApiKeys)
             hits == {d \in deployedApiKeys : d.id = stateKeys[n].id}
         IN  IF hits # {}
             THEN LET deployedApiKey == CHOOSE d \in hits : TRUE
                  IN  Append(acc, [name |-> stateKeys[n].name, id |-> deployedApiKey.id,
                                   description |-> deployedApiKey.description,
                                   expires |-> deployedApiKey.expires])
             ELSE acc

\* line 50: find(propEq('name', apiKey.name), stateApiKeys)
StateApiKey(apiKey, stateApiKeys) ==
    LET i == FirstIndex(stateApiKeys, {k \in Range(stateApiKeys) : k.name = apiKey.name})
    IN  IF i = 0 THEN NoApiKey ELSE stateApiKeys[i]

\* line 52-62: the mode of a desired api key
ApiKeyMode(apiKey, stateApiKey) ==
    IF stateApiKey = NoApiKey THEN "create"
    ELSE IF \/ (apiKey.description # Nil /\ apiKey.description # stateApiKey.description)
            \/ (apiKey.expires # None /\ apiKey.expires # stateApiKey.expires)
    THEN "update"
    ELSE "ignore"

\* line 48-64: merge(merge(stateApiKey, {mode}), apiKey), merge(apiKey, {mode: 'create'})
apiKeysToDeploy(cfg, stateApiKeys) ==
    [i \in 1..Len(cfg.apiKeys) |->
       LET apiKey      == cfg.apiKeys[i]
           stateApiKey == StateApiKey(apiKey, stateApiKeys)
       IN  [name |-> apiKey.name,
            id |-> stateApiKey.id,
            description |-> IF apiKey.description # Nil THEN apiKey.description
                            ELSE stateApiKey.description,
            expires |-> IF apiKey.expires # None THEN apiKey.expires ELSE stateApiKey.expires,
            mode |-> ApiKeyMode(apiKey, stateApiKey)]]

RECURSIVE deployApiKeys(_, _, _, _)
\* line 66-108: the createApiKey / updateApiKey calls, as deployFunctions; the
\* value is the list of {name, id}
deployApiKeys(items, rejected, rem, apiId) ==
    IF items = <<>> THEN Result(Nil, <<>>, rem, <<>>)
    ELSE
      LET n       == Len(items)
          before  == deployApiKeys(SubSeq(items, 1, n - 1), rejected, rem, apiId)
          apiKey  == items[n]
          r       == before.remote
          expires == ExpiresToSend(apiKey.expires)
          old     == {d \in r.apiKeys : d.apiId = apiId /\ d.id = apiKey.id}
          kept(id) == [name |-> apiKey.name, id |-> id, mode |-> apiKey.mode]
      IN  IF apiKey.mode = "create"
          THEN IF rejected[n]
               THEN Result("Other", Append(before.calls, WithExpires(Call("createApiKey", apiKey.name, NoId), expires)),
                           r, Append(before.value, kept(NoId)))
               ELSE Result(before.error,
                           Append(before.calls, WithExpires(Call("createApiKey", apiKey.name, NoId), expires)),
                           [r EXCEPT !.apiKeys = @ \cup
                                {[apiId |-> apiId, id |-> r.nextId,
                                  description |-> apiKey.description,
                                  expires |-> IF expires = None THEN DefaultExpires ELSE expires]},
                                     !.nextId = @ + 1],
                           Append(before.value, kept(r.nextId)))
          ELSE IF apiKey.mode = "update"
          THEN IF rejected[n] \/ old = {}
               THEN Result(IF rejected[n] THEN "Other" ELSE "NotFoundException",
                           Append(before.calls, WithExpires(Call("updateApiKey", apiKey.name, apiKey.id), expires)),
                           r, Append(before.value, kept(apiKey.id)))
               ELSE Result(before.error,
                           Append(before.calls, WithExpires(Call("updateApiKey", apiKey.name, apiKey.id), expires)),
                           [r EXCEPT !.apiKeys = (@ \ old) \cup
                                {[apiId |-> apiId, id |-> apiKey.id,
                                  description |-> apiKey.description,
                                  expires |-> expires]}],
                           Append(before.value, kept(apiKey.id)))
          ELSE Result(before.error, before.calls, r, Append(before.value, kept(apiKey.id)))

\* createOrUpdateApiKeys(appSync, config, state)
createOrUpdateApiKeys(cfg, st, rem, failList, rejected) ==
    LET listing == <<Call("listApiKeys", Nil, NoId)>>
        deployedApiKeys == {d \in rem.apiKeys : d.apiId = cfg.apiId}
        stateApiKeys == MergeStateApiKeys(st.apiKeys, deployedApiKeys)
        toDeploy == apiKeysToDeploy(cfg, stateApiKeys)
        done == deployApiKeys(toDeploy, rejected, rem, cfg.apiId)
    IN  IF failList THEN Result("Other", listing, rem, <<>>)
        ELSE IF \E i \in 1..Len(cfg.apiKeys) : cfg.apiKeys[i].name = Nil
        THEN Result("ConfigurationError", listing, rem, <<>>)
        ELSE Result(done.error, listing \o done.calls, done.remote, done.value)

\* the mode and the id that each api key to deploy carries before the create /
\* update calls are issued
BoundApiKeys(items) ==
    [i \in 1..Len(items) |->
       [name |-> items[i].name, mode |-> items[i].mode, id |-> items[i].id]]

\* default, line 47: config.apiKeys holds {name, id} of each key
CreateOrUpdateApiKeys ==
    /\ pc = "createOrUpdateApiKeys"
    /\ \E failList \in BOOLEAN, rejected \in [1..Len(config.apiKeys) -> BOOLEAN] :
         LET r == createOrUpdateApiKeys(config, state, remote, failList, rejected)
         IN  /\ failList => \A i \in DOMAIN rejected : ~rejected[i]
             /\ \A i \in DOMAIN rejected :
                  rejected[i] => (r.error = "Other" /\ Len(r.value) >= i
                                  /\ r.value[i].mode \in {"create", "update"})
             /\ Continue(r, "removeObsoleteDataSources",
                         [config EXCEPT !.apiKeys =
                            [i \in 1..Len(r.value) |->
                               [name |-> r.value[i].name, id |-> r.value[i].id]]],
                         [run EXCEPT !.apiKeyModes = Modes(r.value),
                                     !.apiKeysToDeploy =
                                        IF Modes(r.value) = <<>> THEN <<>>
                                        ELSE BoundApiKeys(apiKeysToDeploy(config,
                                               MergeStateApiKeys(state.apiKeys,
                                                 {d \in remote.apiKeys : d.apiId = config.apiId}))),
                                     !.deployedApiKeys =
                                        IF failList THEN {}
                                        ELSE {d \in remote.apiKeys : d.apiId = config.apiId},
                                     !.createdApiKeys =
                                        {r.value[i].name :
                                           i \in {j \in 1..Len(r.value) :
                                                    /\ r.value[j].mode = "create"
                                                    /\ r.value[j].id # NoId}}])

(***************************************************************************)
(* removeObsolete*: deletion of what the state holds and the config dropped *)
(***************************************************************************)
\* SwallowNotFound with every error swallowed
SwallowAnyError(code) == Nil

\* the catch block of the delete calls: NotFoundException is swallowed, any
\* other error is thrown again (Nil: nothing thrown)
SwallowNotFound(code) == IF code # "NotFoundException" THEN code ELSE Nil

\* whether the provider holds the resource of the kind that a delete call names
Present(kind, rem, apiId, key) ==
    CASE kind = "Function"   -> \E d \in rem.functions : d.apiId = apiId /\ d.functionId = key.id
      [] kind = "ApiKey"     -> \E d \in rem.apiKeys : d.apiId = apiId /\ d.id = key.id
      [] kind = "DataSource" -> \E d \in rem.dataSources : d.apiId = apiId /\ d.name = key.name
      [] kind = "Resolver"   -> \E d \in rem.resolvers :
                                   d.apiId = apiId /\ d.type = key.type /\ d.field = key.name

\* the provider after the delete call
Removed(kind, rem, apiId, key) ==
    CASE kind = "Function" ->
           [rem EXCEPT !.functions = {d \in @ : ~(d.apiId = apiId /\ d.functionId = key.id)}]
      [] kind = "ApiKey" ->
           [rem EXCEPT !.apiKeys = {d \in @ : ~(d.apiId = apiId /\ d.id = key.id)}]
      [] kind = "DataSource" ->
           [rem EXCEPT !.dataSources = {d \in @ : ~(d.apiId = apiId /\ d.name = key.name)}]
      [] kind = "Resolver" ->
           [rem EXCEPT !.resolvers =
              {d \in @ : ~(d.apiId = apiId /\ d.type = key.type /\ d.field = key.name)}]

\* what the provider answers to a delete call
DeleteAnswer(kind, rem, apiId, key, rejected) ==
    IF rejected THEN "Other"
    ELSE IF Present(kind, rem, apiId, key) THEN Nil ELSE "NotFoundException"

RECURSIVE deleteEach(_, _, _, _, _)
\* Promise.all(map(async ... delete ..., obsolete)): one delete call per
\* obsolete item, all issued; the first error that is not swallowed is thrown
deleteEach(kind, keys, rejected, rem, apiId) ==
    IF keys = <<>> THEN Result(Nil, <<>>, rem, <<>>)
    ELSE
      LET n      == Len(keys)
          before == deleteEach(kind, SubSeq(keys, 1, n - 1), rejected, rem, apiId)
          key    == keys[n]
          answer == DeleteAnswer(kind, before.remote, apiId, key, rejected[n])
          thrown == SwallowNotFound(answer)
      IN  Result(IF before.error # Nil THEN before.error ELSE thrown,
                 Append(before.calls, Answered(Call("delete" \o kind, key.name, key.id), answer)),
                 IF answer = Nil THEN Removed(kind, before.remote, apiId, key) ELSE before.remote,
                 <<>>)

\* pick(['name', 'dataSource']) of a list of functions
NameAndDataSource(functions) ==
    [i \in 1..Len(functions) |->
       [name |-> functions[i].name, dataSource |-> functions[i].dataSource]]

\* obsoleteFunctions with the functions compared by name alone
obsoleteFunctionsByName(cfg, st) ==
    LET all == NameAndDataSource(st.functions)
    IN  difference(SelectSeq(all, LAMBDA f : \A i \in 1..Len(cfg.functions) :
                                               cfg.functions[i].name # f.name),
                   <<>>)

\* line 88-91 of removeObsoleteFunctions
obsoleteFunctions(cfg, st) ==
    difference(NameAndDataSource(st.functions), NameAndDataSource(cfg.functions))

\* line 94-97: the functionId that the state records for an obsolete function
StateFunctionId(func, stateFunctions) ==
    stateFunctions[FirstIndex(stateFunctions,
        {f \in Range(stateFunctions) : f.name = func.name /\ f.dataSource = func.dataSource})
    ].functionId

\* removeObsoleteFunctions(appSync, config, state)
removeObsoleteFunctions(cfg, st, rem, rejected) ==
    LET obsolete == obsoleteFunctions(cfg, st)
    IN  deleteEach("Function",
                   [i \in 1..Len(obsolete) |->
                      [type |-> Nil, name |-> obsolete[i].name,
                       id |-> StateFunctionId(obsolete[i], st.functions)]],
                   rejected, rem, cfg.apiId)

\* map(pick(['name'])) of a list of api keys
Names(items) == [i \in 1..Len(items) |-> items[i].name]

\* obsoleteApiKeys that takes every key of the state for obsolete
obsoleteApiKeysAll(cfg, st) == difference(Names(st.apiKeys), <<>>)

\* line 119-122 of removeObsoleteApiKeys
obsoleteApiKeys(cfg, st) == difference(Names(st.apiKeys), Names(cfg.apiKeys))

\* removeObsoleteApiKeys(appSync, config, state)
removeObsoleteApiKeys(cfg, st, rem, rejected) ==
    LET obsolete == obsoleteApiKeys(cfg, st)
    IN  deleteEach("ApiKey",
                   [i \in 1..Len(obsolete) |->
                      [type |-> Nil, name |-> obsolete[i],
                       id |-> st.apiKeys[FirstIndex(st.apiKeys,
                                {k \in Range(st.apiKeys) : k.name = obsolete[i]})].id]],
                   rejected, rem, cfg.apiId)

\* removeObsoleteDataSources: natural key name
removeObsoleteDataSources(cfg, st, rem, rejected) ==
    LET obsolete == difference(Names(st.dataSources), Names(cfg.dataSources))
    IN  deleteEach("DataSource",
                   [i \in 1..Len(obsolete) |-> [type |-> Nil, name |-> obsolete[i], id |-> NoId]],
                   rejected, rem, cfg.apiId)

\* pick(['type', 'field']) of a list of resolvers
TypeAndField(items) ==
    [i \in 1..Len(items) |-> [type |-> items[i].type, field |-> items[i].field]]

\* removeObsoleteResolvers: natural key (type, field)
removeObsoleteResolvers(cfg, st, rem, rejected) ==
    LET obsolete == difference(TypeAndField(st.mappingTemplates), TypeAndField(cfg.mappingTemplates))
    IN  deleteEach("Resolver",
                   [i \in 1..Len(obsolete) |->
                      [type |-> obsolete[i].type, name |-> obsolete[i].field, id |-> NoId]],
                   rejected, rem, cfg.apiId)

\* the choices of the delete calls that the provider rejects: a function from
\* the obsolete items to BOOLEAN
Rejections(n) == [1..n -> BOOLEAN]

\* default, line 49
RemoveObsoleteDataSources ==
    /\ pc = "removeObsoleteDataSources"
    /\ \E rejected \in Rejections(Len(state.dataSources)) :
         LET r == removeObsoleteDataSources(config, state, remote, rejected)
         IN  /\ \A i \in DOMAIN rejected : rejected[i] => i <= Len(r.calls)
             /\ Continue(r, "removeObsoleteResolvers", config, run)

\* default, line 50
RemoveObsoleteResolvers ==
    /\ pc = "removeObsoleteResolvers"
    /\ \E rejected \in Rejections(Len(state.mappingTemplates)) :
         LET r == removeObsoleteResolvers(config, state, remote, rejected)
         IN  /\ \A i \in DOMAIN rejected : rejected[i] => i <= Len(r.calls)
             /\ Continue(r, "removeObsoleteFunctions", config, run)

\* default, line 51
RemoveObsoleteFunctions ==
    /\ pc = "removeObsoleteFunctions"
    /\ \E rejected \in Rejections(Len(state.functions)) :
         LET r == removeObsoleteFunctions(config, state, remote, rejected)
         IN  /\ \A i \in DOMAIN rejected : rejected[i] => i <= Len(r.calls)
             /\ Continue(r, "removeObsoleteApiKeys", config, run)

\* default, line 52
RemoveObsoleteApiKeys ==
    /\ pc = "removeObsoleteApiKeys"
    /\ \E rejected \in Rejections(Len(state.apiKeys)) :
         LET r == removeObsoleteApiKeys(config, state, remote, rejected)
         IN  /\ \A i \in DOMAIN rejected : rejected[i] => i <= Len(r.calls)
             /\ Continue(r, "save", config, run)

(***************************************************************************)
(* The end of default: the state is assigned and saved.                     *)
(***************************************************************************)
\* default, line 54-57: the projection of the config that becomes this.state
ReducedState(cfg) ==
    [apiId |-> cfg.apiId,
     schemaChecksum |-> cfg.schemaChecksum,
     apiKeys |-> cfg.apiKeys,
     dataSources |-> [i \in 1..Len(cfg.dataSources) |->
                        [name |-> cfg.dataSources[i].name, type |-> cfg.dataSources[i].type]],
     mappingTemplates |-> TypeAndField(cfg.mappingTemplates),
     functions |-> [i \in 1..Len(cfg.functions) |->
                      [name |-> cfg.functions[i].name,
                       dataSource |-> cfg.functions[i].dataSource,
                       functionId |-> cfg.functions[i].functionId]]]

\* default, line 54-58
Save ==
    /\ pc = "save"
    /\ state' = ReducedState(config)
    /\ pc' = "idle"
    /\ run' = [run EXCEPT !.result = "ok", !.steps = Append(@, pc)]
    /\ UNCHANGED <<config, remote, calls, prev, runs, polls, drifts>>

(***************************************************************************)
(* AwsAppSync.remove and deleteGraphqlApi                                   *)
(***************************************************************************)
\* what the provider answers to deleteGraphqlApi
DeleteApiAnswer(rem, apiId, rejected) ==
    IF rejected THEN "Other"
    ELSE IF apiId = NoId THEN "MissingRequiredParameter"
    ELSE IF \E a \in rem.apis : a.apiId = apiId THEN Nil
    ELSE "NotFoundException"

\* the provider after an api is deleted: the api and all that belongs to it
WithoutApi(rem, apiId) ==
    [rem EXCEPT !.apis = {a \in @ : a.apiId # apiId},
                !.dataSources = {d \in @ : d.apiId # apiId},
                !.schemas = {d \in @ : d.apiId # apiId},
                !.resolvers = {d \in @ : d.apiId # apiId},
                !.functions = {d \in @ : d.apiId # apiId},
                !.apiKeys = {d \in @ : d.apiId # apiId}]

\* deleteGraphqlApi(appSync, config)
deleteGraphqlApi(apiId, rem, rejected) ==
    LET answer == DeleteApiAnswer(rem, apiId, rejected)
    IN  Result(SwallowNotFound(answer),
               <<Answered(Call("deleteGraphqlApi", Nil, apiId), answer)>>,
               IF answer = Nil THEN WithoutApi(rem, apiId) ELSE rem,
               <<>>)

\* remove(inputs): deleteGraphqlApi, awsIamRole.remove, this.state = {}, save
Remove ==
    /\ pc = "idle"
    /\ runs < MaxRuns
    /\ runs' = runs + 1
    /\ \E rejected \in BOOLEAN :
         LET r == deleteGraphqlApi(state.apiId, remote, rejected)
         IN  /\ calls' = r.calls
             /\ remote' = IF r.error = Nil THEN [r.remote EXCEPT !.roles = {}] ELSE r.remote
             /\ state' = IF r.error = Nil THEN EmptyState ELSE state
             /\ run' = [NoRun EXCEPT !.op = "remove", !.startState = state,
                          !.result = IF r.error = Nil THEN "ok" ELSE "failed",
                          !.error = r.error,
                          !.failedAt = IF r.error = Nil THEN Nil ELSE "deleteGraphqlApi"]
    /\ prev' = Summary(run)
    /\ UNCHANGED <<config, pc, polls, drifts>>

(***************************************************************************)
(* The provider's resources change outside the component.                   *)
(***************************************************************************)
\* between two runs, a function, an api key or an api is deleted by someone else
Drift ==
    /\ pc = "idle"
    /\ drifts < MaxDrift
    /\ runs < MaxRuns
    /\ drifts' = drifts + 1
    /\ \E kind \in {"Function", "ApiKey", "Api"} :
         \E gone \in (CASE kind = "Function" -> remote.functions
                        [] kind = "ApiKey" -> remote.apiKeys
                        [] kind = "Api" -> remote.apis) :
           remote' = CASE kind = "Function" -> [remote EXCEPT !.functions = @ \ {gone}]
                       [] kind = "ApiKey" -> [remote EXCEPT !.apiKeys = @ \ {gone}]
                       [] kind = "Api" -> WithoutApi(remote, gone.apiId)
    /\ run' = [run EXCEPT !.drift = TRUE]
    /\ UNCHANGED <<state, config, pc, calls, prev, runs, polls>>

(***************************************************************************)
(* The desired configurations that the runs are given.                      *)
(***************************************************************************)
f1A   == Fn("f1", "A", "q1.vtl", "p1.vtl")
f1Aq2 == Fn("f1", "A", "q2.vtl", "p1.vtl")
f1Ap2 == Fn("f1", "A", "q1.vtl", "p2.vtl")
f1B   == Fn("f1", "B", "q1.vtl", "p1.vtl")
f2A   == Fn("f2", "A", "q2.vtl", "p2.vtl")

\* expires of 1700000000 (epoch seconds) and of 1700000000000 (milliseconds)
ExpiresSeconds == <<1700, 0>>
ExpiresMillis  == <<1700000, 0>>
\* expires of 1700000000500 (milliseconds, half a second past)
ExpiresMillisHalf == <<1700000, 500>>

k1     == Key("k1", Nil, None)
k1d    == Key("k1", "first key", None)
k1sec  == Key("k1", Nil, ExpiresSeconds)
k1ms   == Key("k1", Nil, ExpiresMillis)
k1half == Key("k1", Nil, ExpiresMillisHalf)
k2     == Key("k2", "second key", ExpiresSeconds)
\* a key without a name
kNoName == Key(Nil, "no name", None)

dsA     == Ds("A", "AWS_LAMBDA", Nil)
dsB     == Ds("B", "AWS_LAMBDA", "arn:aws:iam::role/own")
rQueryA == Res("Query", "a", "q1.vtl")

\* a configuration of the api "api" with key authentication
Desired(dataSources, schema, isApiCreator, mappingTemplates, functions, apiKeys) ==
    Inputs("api", "API_KEY", dataSources, schema, isApiCreator, mappingTemplates,
           functions, apiKeys)

\* configurations that differ in their functions
FunctionInputs ==
    {Desired(<<dsA>>, "schema.graphql", TRUE, <<rQueryA>>, fs, <<>>) :
        fs \in {<<>>, <<f1A>>, <<f1Aq2>>, <<f1Ap2>>, <<f1A, f2A>>, <<f1B, f1A>>, <<f1A, f1A>>}}

\* configurations that differ in their api keys
ApiKeyInputs ==
    {Desired(<<>>, "schema.graphql", TRUE, <<>>, <<f1A>>, ks) :
        ks \in {<<k1>>, <<k1d>>, <<k1sec>>, <<k1ms>>, <<k1half>>, <<k1, k2>>, <<k1, k1>>, <<kNoName>>}}
    \cup {Desired(<<>>, "schema.graphql", TRUE, <<>>, <<>>, <<>>)}

\* configurations that differ in their schema and in who manages it
SchemaInputs ==
    {Desired(<<dsA>>, schema, isApiCreator, <<>>, <<>>, <<k1>>) :
        schema \in {Nil, "schema.graphql", "other.graphql"}, isApiCreator \in BOOLEAN}
    \cup {Inputs("api", "AWS_IAM", <<dsA>>, "schema.graphql", TRUE, <<>>, <<>>, <<k1>>)}

(***************************************************************************)
(* The specifications.                                                      *)
(***************************************************************************)
Steps ==
    \/ CreateOrUpdateGraphqlApi
    \/ CreateServiceRole
    \/ CreateOrUpdateDataSources
    \/ CreateSchema
    \/ GetSchemaCreationStatus
    \/ CreateOrUpdateResolvers
    \/ CreateOrUpdateFunctions
    \/ CreateOrUpdateApiKeys
    \/ RemoveObsoleteDataSources
    \/ RemoveObsoleteResolvers
    \/ RemoveObsoleteFunctions
    \/ RemoveObsoleteApiKeys
    \/ Save
    \/ Remove
    \/ Drift

\* runs that reconcile functions
Next == (\E inputs \in FunctionInputs : StartRun(inputs)) \/ Steps
Spec == Init /\ [][Next]_vars

\* runs that reconcile api keys
NextApiKeys == (\E inputs \in ApiKeyInputs : StartRun(inputs)) \/ Steps
SpecApiKeys == Init /\ [][NextApiKeys]_vars

\* runs that converge the schema
NextSchema == (\E inputs \in SchemaInputs : StartRun(inputs)) \/ Steps
SpecSchema == Init /\ [][NextSchema]_vars

\* the same runs, with the pending poll of createSchema always answered in the
\* end: the loop of createSchema issues its next getSchemaCreationStatus call
\* one second after the last, and the provider answers it
SpecSchemaFair == SpecSchema /\ WF_vars(GetSchemaCreationStatus)

(***************************************************************************)
(* Properties.                                                              *)
(***************************************************************************)
\* the create, update and delete calls on functions and api keys
FunctionAndKeyMutations ==
    {"createFunction", "updateFunction", "deleteFunction",
     "createApiKey", "updateApiKey", "deleteApiKey"}

\* a step of the current run has run to its end, or thrown
StepDone(step) == step \in Range(run.steps) \/ run.failedAt = step

\* the current run of default repeats the inputs of the run before it, which
\* completed, and nothing changed the provider's resources in between
RepeatedRun ==
    /\ run.op = "default" /\ prev.op = "default"
    /\ prev.result = "ok" /\ ~prev.drift
    /\ prev.inputs = run.inputs

\* C1 (idempotence of a run): a run that repeats the inputs of a completed run,
\* with no drift in between, classifies every function and every api key as
\* ignore, issues no create, update or delete call for them, and saves the
\* state it read.
C1_Idempotence ==
    RepeatedRun =>
      /\ \A i \in DOMAIN run.functionModes : run.functionModes[i] = "ignore"
      /\ \A i \in DOMAIN run.apiKeyModes : run.apiKeyModes[i] = "ignore"
      /\ \A i \in DOMAIN calls : calls[i].op \notin FunctionAndKeyMutations
      /\ (run.result = "ok" => state = run.startState)

\* the run before the current run of default completed, and nothing changed
\* the provider's resources since
AfterCompletedRun ==
    /\ run.op = "default" /\ prev.op = "default"
    /\ prev.result = "ok" /\ ~prev.drift

\* C2 (round trip): a function or an api key that the run before created, and
\* that is desired with the same fields again, is classified ignore.
C2_RoundTrip ==
    AfterCompletedRun =>
      /\ \A i \in DOMAIN run.functionModes :
           LET func == run.inputs.functions[i]
           IN  (/\ <<func.name, func.dataSource>> \in prev.createdFunctions
                /\ func \in Range(prev.inputs.functions))
               => run.functionModes[i] = "ignore"
      /\ \A i \in DOMAIN run.apiKeyModes :
           LET apiKey == run.inputs.apiKeys[i]
           IN  (/\ apiKey.name \in prev.createdApiKeys
                /\ apiKey \in Range(prev.inputs.apiKeys))
               => run.apiKeyModes[i] = "ignore"

\* the steps of default in the order of the source
StepOrder ==
    <<"createOrUpdateGraphqlApi", "createServiceRole", "createOrUpdateDataSources",
      "createSchema", "getSchemaCreationStatus", "createOrUpdateResolvers",
      "createOrUpdateFunctions", "createOrUpdateApiKeys", "removeObsoleteDataSources",
      "removeObsoleteResolvers", "removeObsoleteFunctions", "removeObsoleteApiKeys", "save">>

\* the steps of default that come before the given one
StepsBefore(step) ==
    {StepOrder[j] : j \in {k \in DOMAIN StepOrder :
                             \E m \in DOMAIN StepOrder : k < m /\ StepOrder[m] = step}}

\* C3 (abort without persist): once a step of default has failed, the run is
\* over, no step that comes after the failed one has run, and the persisted
\* state is the state read at the start of the run.
C3_AbortWithoutPersist ==
    (run.op = "default" /\ run.failedAt # Nil) =>
      /\ pc = "idle"
      /\ run.result = "failed"
      /\ Range(run.steps) \subseteq StepsBefore(run.failedAt)
      /\ state = run.startState

\* a run that failed in createOrUpdateFunctions after one of its functions was
\* created, on top of a saved state
C3_Witness ==
    /\ run.op = "default"
    /\ run.failedAt = "createOrUpdateFunctions"
    /\ run.createdFunctions # {}
    /\ state # EmptyState
    /\ state = run.startState

\* the current run of default repeats the inputs of the run before it, which
\* was aborted
RetriedRun ==
    /\ run.op = "default" /\ prev.op = "default"
    /\ prev.result = "failed" /\ ~prev.drift
    /\ prev.inputs = run.inputs

\* C4 (retry safety): the retry of an aborted run creates nothing that the
\* aborted run had created, and when it completes each desired function is one
\* remote function and the api holds one key per desired api key.
C4_RetrySafety ==
    RetriedRun =>
      /\ \A i \in DOMAIN run.functionModes :
           run.functionModes[i] = "create" =>
             <<run.inputs.functions[i].name, run.inputs.functions[i].dataSource>>
                \notin prev.createdFunctions
      /\ \A i \in DOMAIN run.apiKeyModes :
           run.apiKeyModes[i] = "create" =>
             run.inputs.apiKeys[i].name \notin prev.createdApiKeys
      /\ (run.result = "ok" =>
            /\ \A i \in DOMAIN run.inputs.functions :
                 Cardinality({d \in remote.functions :
                                /\ d.apiId = state.apiId
                                /\ d.name = run.inputs.functions[i].name
                                /\ d.dataSourceName = run.inputs.functions[i].dataSource}) = 1
            /\ Cardinality({d \in remote.apiKeys : d.apiId = state.apiId})
                 = Len(run.inputs.apiKeys))

\* the positions in calls of the calls of an operation
CallsOf(op) == {j \in DOMAIN calls : calls[j].op = op}

\* the positions in the prior state of the functions that are no longer desired
ObsoletePriorFunctions ==
    {i \in DOMAIN run.startState.functions :
       \A k \in DOMAIN run.inputs.functions :
          ~(/\ run.inputs.functions[k].name = run.startState.functions[i].name
            /\ run.inputs.functions[k].dataSource = run.startState.functions[i].dataSource)}

\* C5: once removeObsoleteFunctions has run, it has issued exactly one
\* deleteFunction call for each function of the prior state whose (name,
\* dataSource) is not desired, with the functionId of the prior state, and no
\* other deleteFunction call; before that no deleteFunction call is issued.
C5_RemoveObsoleteFunctions ==
    run.op = "default" =>
      IF StepDone("removeObsoleteFunctions")
      THEN /\ \A i \in ObsoletePriorFunctions :
                Cardinality({j \in CallsOf("deleteFunction") :
                               /\ calls[j].id = run.startState.functions[i].functionId
                               /\ calls[j].name = run.startState.functions[i].name}) = 1
           /\ Cardinality(CallsOf("deleteFunction")) = Cardinality(ObsoletePriorFunctions)
           /\ \A i \in DOMAIN run.startState.functions \ ObsoletePriorFunctions :
                \A j \in CallsOf("deleteFunction") :
                   calls[j].id # run.startState.functions[i].functionId
      ELSE CallsOf("deleteFunction") = {}

\* the scenario of C5: no function desired, one function f1 of data source A in
\* the prior state, one delete issued, for f1
C5_Witness ==
    /\ run.op = "default"
    /\ StepDone("removeObsoleteFunctions")
    /\ run.inputs.functions = <<>>
    /\ Len(run.startState.functions) = 1
    /\ run.startState.functions[1].name = "f1"
    /\ run.startState.functions[1].dataSource = "A"
    /\ \E j \in DOMAIN calls :
         /\ CallsOf("deleteFunction") = {j}
         /\ calls[j].id = run.startState.functions[1].functionId

\* the answers to a delete call after which the operation goes on
Tolerated == {"ok", "NotFoundException"}

\* the delete calls of an operation that were answered with an error other
\* than NotFoundException
Refused(op) == {j \in CallsOf(op) : calls[j].answer \notin Tolerated}

\* C6 (idempotent delete): removeObsoleteFunctions, removeObsoleteApiKeys and
\* deleteGraphqlApi fail exactly when one of their delete calls is answered
\* with an error other than NotFoundException, and then with that error; a
\* NotFoundException does not make them fail.
C6_IdempotentDelete ==
    /\ (run.op = "default" /\ StepDone("removeObsoleteFunctions")) =>
         /\ run.failedAt = "removeObsoleteFunctions" <=> Refused("deleteFunction") # {}
         /\ run.failedAt = "removeObsoleteFunctions" =>
              \E j \in Refused("deleteFunction") : run.error = calls[j].answer
    /\ (run.op = "default" /\ StepDone("removeObsoleteApiKeys")) =>
         /\ run.failedAt = "removeObsoleteApiKeys" <=> Refused("deleteApiKey") # {}
         /\ run.failedAt = "removeObsoleteApiKeys" =>
              \E j \in Refused("deleteApiKey") : run.error = calls[j].answer
    /\ run.op = "remove" =>
         /\ run.result = "failed" <=> Refused("deleteGraphqlApi") # {}
         /\ run.result = "failed" =>
              \E j \in Refused("deleteGraphqlApi") : run.error = calls[j].answer
         /\ run.result = "ok" => state = EmptyState

\* a run that completed although a deleteFunction and a deleteApiKey call were
\* answered NotFoundException
C6_Witness ==
    /\ run.op = "default"
    /\ run.result = "ok"
    /\ \E j \in CallsOf("deleteFunction") : calls[j].answer = "NotFoundException"
    /\ \E j \in CallsOf("deleteApiKey") : calls[j].answer = "NotFoundException"

\* C7: when the checksum of the resolved schema equals the checksum of the
\* prior state, createSchema calls neither startSchemaCreation nor
\* getSchemaCreationStatus and returns the prior checksum.
C7_UnchangedSchemaSkipped ==
    (/\ run.op = "default"
     /\ StepDone("createSchema")
     /\ run.schemaText # Nil
     /\ checksum(run.schemaText) = run.startState.schemaChecksum) =>
       /\ CallsOf("startSchemaCreation") = {}
       /\ CallsOf("getSchemaCreationStatus") = {}
       /\ "createSchema" \in Range(run.steps)
       /\ config.schemaChecksum = run.startState.schemaChecksum
       /\ (run.result = "ok" => state.schemaChecksum = run.startState.schemaChecksum)

\* a run past createSchema whose schema has the checksum of the prior state
C7_Witness ==
    /\ run.op = "default"
    /\ "createSchema" \in Range(run.steps)
    /\ run.schemaText # Nil
    /\ run.startState.schemaChecksum # Nil
    /\ checksum(run.schemaText) = run.startState.schemaChecksum
    /\ run.result = "ok"

\* C8: with no schema in the configuration and a caller that is not the api
\* creator, createSchema makes no call and returns the prior checksum, and the
\* checksum saved at the end of the run is the prior one.
C8_SkippedSchemaKeepsChecksum ==
    (/\ run.op = "default"
     /\ "createSchema" \in Range(run.steps)
     /\ run.inputs.schema = Nil
     /\ ~run.inputs.isApiCreator) =>
       /\ CallsOf("startSchemaCreation") = {}
       /\ CallsOf("getSchemaCreationStatus") = {}
       /\ config.schemaChecksum = run.startState.schemaChecksum
       /\ (run.result = "ok" => state.schemaChecksum = run.startState.schemaChecksum)

\* two desired functions of the run share their name and data source
DuplicateFunctions ==
    \E i, j \in DOMAIN run.inputs.functions :
       /\ i < j
       /\ run.inputs.functions[i].name = run.inputs.functions[j].name
       /\ run.inputs.functions[i].dataSource = run.inputs.functions[j].dataSource

\* the provider calls that change a resource
MutationOps ==
    {"createGraphqlApi", "updateGraphqlApi", "createRole", "createPolicy", "attachRolePolicy",
     "createDataSource", "updateDataSource", "deleteDataSource", "startSchemaCreation",
     "createResolver", "updateResolver", "deleteResolver"} \cup FunctionAndKeyMutations

C10_DataSourcesRemovedLast ==
    (run.op = "default" /\ (pc = "removeObsoleteDataSources"
                            \/ StepDone("removeObsoleteDataSources"))) =>
      {"removeObsoleteResolvers", "removeObsoleteFunctions"} \subseteq Range(run.steps)

\* the kind a provider call of default belongs to, numbered in the order in
\* which default processes the kinds: the api and the role (0), data sources
\* (1), the schema (2), resolvers (3), functions (4), api keys (5), removals (6)
KindRank(op) ==
    CASE op \in {"listDataSources", "createDataSource", "updateDataSource"} -> 1
      [] op \in {"startSchemaCreation", "getSchemaCreationStatus"} -> 2
      [] op \in {"listResolvers", "createResolver", "updateResolver"} -> 3
      [] op \in {"listFunctions", "createFunction", "updateFunction"} -> 4
      [] op \in {"listApiKeys", "createApiKey", "updateApiKey"} -> 5
      [] op \in {"deleteDataSource", "deleteResolver", "deleteFunction", "deleteApiKey"} -> 6
      [] OTHER -> 0

\* the statuses of a schema creation after which it does not change any more
EndOfSchemaCreation == {"FAILED", "SUCCESS", "NOT_APPLICABLE"}

\* C11 (a run is sequential across kinds): the calls of a run are issued kind
\* by kind in the order data sources, schema, resolvers, functions, api keys,
\* removals; a call on resolvers, functions or api keys is issued only after
\* createOrUpdateDataSources has completed and, when a schema creation was
\* started, after a terminal status of it was polled; a delete call of a
\* removeObsolete* step is issued only after the four createOrUpdate* steps
\* have completed.
C11_SequentialKinds ==
    run.op = "default" =>
      /\ \A i, j \in DOMAIN calls :
           i < j => KindRank(calls[i].op) <= KindRank(calls[j].op)
      /\ \A j \in DOMAIN calls :
           KindRank(calls[j].op) \in {3, 4, 5} =>
             /\ "createOrUpdateDataSources" \in Range(run.steps)
             /\ "createSchema" \in Range(run.steps)
             /\ CallsOf("startSchemaCreation") # {} =>
                  \E i \in CallsOf("getSchemaCreationStatus") :
                     i < j /\ calls[i].name \in EndOfSchemaCreation
      /\ \A j \in DOMAIN calls :
           KindRank(calls[j].op) = 6 =>
             {"createOrUpdateDataSources", "createOrUpdateResolvers",
              "createOrUpdateFunctions", "createOrUpdateApiKeys"} \subseteq Range(run.steps)

\* a completed run that created a data source, submitted a schema and polled
\* it until it was terminal, then created a resolver and a function
C11_Witness ==
    /\ run.op = "default"
    /\ run.result = "ok"
    /\ CallsOf("createDataSource") # {}
    /\ \E i \in CallsOf("getSchemaCreationStatus") : calls[i].name = "PROCESSING"
    /\ CallsOf("createResolver") # {}
    /\ CallsOf("createFunction") # {}

\* the api keys of the prior state whose id is among the keys that the run listed
HeldStateApiKeys ==
    {k \in Range(run.startState.apiKeys) : \E d \in run.deployedApiKeys : d.id = k.id}

\* C12 (classification of api keys): a desired key whose name is the name of no
\* key of the prior state that the provider still holds is classified create;
\* a key whose name is found there is classified update when the description
\* or the expires it gives differs from the deployed one, and ignore otherwise.
C12_ApiKeyClassification ==
    (run.op = "default" /\ run.apiKeyModes # <<>>) =>
      \A i \in DOMAIN run.apiKeyModes :
         LET apiKey == run.inputs.apiKeys[i]
             named  == {k \in HeldStateApiKeys : k.name = apiKey.name}
         IN  IF named = {}
             THEN run.apiKeyModes[i] = "create"
             ELSE \A k \in named : \A d \in run.deployedApiKeys :
                    d.id = k.id =>
                      run.apiKeyModes[i] =
                        IF \/ (apiKey.description # Nil /\ apiKey.description # d.description)
                           \/ (apiKey.expires # None /\ apiKey.expires # d.expires)
                        THEN "update" ELSE "ignore"

\* a run that classified as create a key whose name the prior state holds with
\* an id that the provider no longer holds
C12_Witness ==
    /\ run.op = "default"
    /\ \E i \in DOMAIN run.apiKeyModes :
         /\ run.apiKeyModes[i] = "create"
         /\ \E k \in Range(run.startState.apiKeys) \ HeldStateApiKeys :
              k.name = run.inputs.apiKeys[i].name
    /\ run.deployedApiKeys # {}

\* the positions in the prior state of the api keys whose name is no longer desired
ObsoletePriorApiKeys ==
    {i \in DOMAIN run.startState.apiKeys :
       \A k \in DOMAIN run.inputs.apiKeys :
          run.inputs.apiKeys[k].name # run.startState.apiKeys[i].name}

\* C13: once removeObsoleteApiKeys has completed, every api key of the prior
\* state whose name is not desired has a deleteApiKey call with the id the
\* prior state records for it, answered ok or NotFoundException; every
\* deleteApiKey call is such a call, and none names a key that is still desired.
C13_RemoveObsoleteApiKeys ==
    (run.op = "default" /\ "removeObsoleteApiKeys" \in Range(run.steps)) =>
      /\ \A i \in ObsoletePriorApiKeys :
           \E j \in CallsOf("deleteApiKey") :
              /\ calls[j].id = run.startState.apiKeys[i].id
              /\ calls[j].name = run.startState.apiKeys[i].name
              /\ calls[j].answer \in Tolerated
      /\ \A j \in CallsOf("deleteApiKey") :
           \E i \in ObsoletePriorApiKeys : calls[j].id = run.startState.apiKeys[i].id
      /\ \A j \in CallsOf("deleteApiKey") :
           \A i \in DOMAIN run.startState.apiKeys \ ObsoletePriorApiKeys :
              calls[j].id # run.startState.apiKeys[i].id

\* the epoch seconds of the expires values of the desired keys: 1700000000 is
\* seconds already, 1700000000000 ms is 1700000000 s, and 1700000000500 ms
\* rounds to 1700000001 s
EpochSeconds ==
    (ExpiresSeconds :> <<1700, 0>>) @@ (ExpiresMillis :> <<1700, 0>>) @@
    (ExpiresMillisHalf :> <<1700, 1>>)

\* C14 (expiry normalization): every createApiKey and updateApiKey call for a
\* desired key that gives an expires sends that expires in epoch seconds,
\* rounded: a number below 1e12 as it is, any other number divided by 1000.
C14_ExpiresSentInSeconds ==
    run.op = "default" =>
      \A j \in CallsOf("createApiKey") \cup CallsOf("updateApiKey") :
         \A i \in DOMAIN run.inputs.apiKeys :
            (run.inputs.apiKeys[i].name = calls[j].name /\ run.inputs.apiKeys[i].expires # None)
            => calls[j].expires = EpochSeconds[run.inputs.apiKeys[i].expires]

\* a run that created a key given with expires 1700000000500 (milliseconds)
\* and sent 1700000001
C14_Witness ==
    /\ run.op = "default"
    /\ \E j \in CallsOf("createApiKey") :
         /\ calls[j].expires = <<1700, 1>>
         /\ \E i \in DOMAIN run.inputs.apiKeys :
              /\ run.inputs.apiKeys[i].name = calls[j].name
              /\ run.inputs.apiKeys[i].expires = ExpiresMillisHalf


\* C15: createServiceRole issues no createRole, createPolicy or
\* attachRolePolicy call when every desired data source declares its
\* serviceRoleArn, also when there is no data source.
C15_NoRoleWhenNoneNeeded ==
    (/\ run.op = "default"
     /\ \A i \in DOMAIN run.inputs.dataSources :
          run.inputs.dataSources[i].serviceRoleArn # Nil) =>
      /\ CallsOf("createRole") = {}
      /\ CallsOf("createPolicy") = {}
      /\ CallsOf("attachRolePolicy") = {}

\* C16: when createOrUpdateDataSources starts, every desired data source that
\* declared no serviceRoleArn carries the ARN of the role that createServiceRole
\* created in the run, and every other data source carries the one it declared.
C16_RoleArnStamped ==
    (run.op = "default" /\ pc = "createOrUpdateDataSources") =>
      \A i \in DOMAIN run.inputs.dataSources :
         /\ i \in DOMAIN config.dataSources
         /\ config.dataSources[i].serviceRoleArn =
              IF run.inputs.dataSources[i].serviceRoleArn = Nil
              THEN SynthesizedRoleArn
              ELSE run.inputs.dataSources[i].serviceRoleArn

\* C17: a desired api key without a name makes the run fail with a
\* configuration error, and the run issues no provider call.
C17_UnnamedKeyBeforeAnyCall ==
    (/\ run.op = "default"
     /\ \E i \in DOMAIN run.inputs.apiKeys : run.inputs.apiKeys[i].name = Nil) =>
      /\ run.result # "ok"
      /\ run.failedAt # Nil => run.error = "ConfigurationError"
      /\ calls = <<>>

\* C18: a completed run whose schema creation ended FAILED has not saved the
\* checksum of that schema.
C18_FailedSchemaNotPersisted ==
    (/\ run.op = "default"
     /\ run.result = "ok"
     /\ run.schemaStatus = "FAILED") =>
      state.schemaChecksum # checksum(run.schemaText)

\* C19: after a completed run of default, and as long as nothing else changes
\* the provider's resources, every functionId and every api key id of the
\* persisted state is the id of a function, of a key, that the provider holds
\* for the api of the state, and no id that a deleteFunction or deleteApiKey
\* call of the run named is in the persisted state.
C19_StateIdsExistRemotely ==
    (run.op = "default" /\ run.result = "ok" /\ ~run.drift) =>
      /\ \A i \in DOMAIN state.functions :
           \E d \in remote.functions :
              d.apiId = state.apiId /\ d.functionId = state.functions[i].functionId
      /\ \A i \in DOMAIN state.apiKeys :
           \E d \in remote.apiKeys : d.apiId = state.apiId /\ d.id = state.apiKeys[i].id
      /\ \A j \in CallsOf("deleteFunction") :
           \A i \in DOMAIN state.functions : state.functions[i].functionId # calls[j].id
      /\ \A j \in CallsOf("deleteApiKey") :
           \A i \in DOMAIN state.apiKeys : state.apiKeys[i].id # calls[j].id

\* a completed run that saved a function and an api key and deleted an api key
\* of the prior state
C19_Witness ==
    /\ run.op = "default"
    /\ run.result = "ok"
    /\ ~run.drift
    /\ state.functions # <<>>
    /\ state.apiKeys # <<>>
    /\ \E j \in CallsOf("deleteApiKey") : calls[j].answer = "ok"

\* the getSchemaCreationStatus calls of the run that were answered a terminal status
TerminalPolls ==
    {j \in CallsOf("getSchemaCreationStatus") : calls[j].name \in EndOfSchemaCreation}

\* the state part of C20: createSchema is in its polling loop exactly as long
\* as startSchemaCreation was called, no poll was answered a terminal status
\* and no call was rejected; it has returned from the loop only after a
\* terminal status, and the first terminal status is the last poll.
PollingUntilTerminal ==
    run.op = "default" =>
      /\ pc = "getSchemaCreationStatus" <=>
           (/\ CallsOf("startSchemaCreation") # {}
            /\ TerminalPolls = {}
            /\ run.failedAt = Nil)
      /\ "getSchemaCreationStatus" \in Range(run.steps) => TerminalPolls # {}
      /\ \A j \in TerminalPolls : \A k \in CallsOf("getSchemaCreationStatus") : k <= j
      /\ CallsOf("startSchemaCreation") = {} => CallsOf("getSchemaCreationStatus") = {}

\* C20 (schema polling ends exactly on a terminal status): PollingUntilTerminal
\* holds in every state, and a createSchema that is polling eventually leaves
\* the loop, the provider answering a terminal status (or rejecting the call)
\* in the end.
C20_PollingEndsOnTerminal ==
    /\ []PollingUntilTerminal
    /\ (pc = "getSchemaCreationStatus") ~> (pc # "getSchemaCreationStatus")

\* a run whose schema creation was polled PROCESSING, then FAILED, and that
\* went on after it
C20_Witness ==
    /\ run.op = "default"
    /\ "getSchemaCreationStatus" \in Range(run.steps)
    /\ \E i, j \in CallsOf("getSchemaCreationStatus") :
         /\ i < j
         /\ calls[i].name = "PROCESSING"
         /\ calls[j].name = "FAILED"

\* C21 (identifiers of the items to deploy): in createOrUpdateFunctions and in
\* createOrUpdateApiKeys an item classified update or ignore carries the
\* identifier of exactly one resource of the listing of the run, an item
\* classified create carries none; once the operation has returned, every item
\* of the list it returned has an identifier: the one it carried for update and
\* ignore, one that the listing did not hold for create.
C21_IdentifiersOfItems ==
    run.op = "default" =>
      /\ \A i \in DOMAIN run.functionsToDeploy :
           LET item == run.functionsToDeploy[i]
           IN  /\ item.mode \in {"update", "ignore"} =>
                    Cardinality({d \in run.deployedFunctions : d.functionId = item.id}) = 1
               /\ item.mode = "create" => item.id = NoId
               /\ "createOrUpdateFunctions" \in Range(run.steps) =>
                    /\ config.functions[i].functionId # NoId
                    /\ item.mode \in {"update", "ignore"} =>
                         config.functions[i].functionId = item.id
                    /\ item.mode = "create" =>
                         \A d \in run.deployedFunctions :
                            d.functionId # config.functions[i].functionId
      /\ \A i \in DOMAIN run.apiKeysToDeploy :
           LET item == run.apiKeysToDeploy[i]
           IN  /\ item.mode \in {"update", "ignore"} =>
                    Cardinality({d \in run.deployedApiKeys : d.id = item.id}) = 1
               /\ item.mode = "create" => item.id = NoId
               /\ "createOrUpdateApiKeys" \in Range(run.steps) =>
                    /\ config.apiKeys[i].id # NoId
                    /\ item.mode \in {"update", "ignore"} => config.apiKeys[i].id = item.id
                    /\ item.mode = "create" =>
                         \A d \in run.deployedApiKeys : d.id # config.apiKeys[i].id
      /\ "createOrUpdateFunctions" \in Range(run.steps) =>
           Len(run.functionsToDeploy) = Len(run.inputs.functions)
      /\ "createOrUpdateApiKeys" \in Range(run.steps) =>
           Len(run.apiKeysToDeploy) = Len(run.inputs.apiKeys)

\* a run past createOrUpdateApiKeys with a function it ignored and an api key
\* it updated
C21_Witness ==
    /\ run.op = "default"
    /\ "createOrUpdateApiKeys" \in Range(run.steps)
    /\ \E i \in DOMAIN run.functionsToDeploy : run.functionsToDeploy[i].mode = "ignore"
    /\ \E i \in DOMAIN run.apiKeysToDeploy : run.apiKeysToDeploy[i].mode = "update"

\* the text of a template file under the source root
TemplateText(file) == Files[<<SrcRoot, file>>]

\* C22: when createOrUpdateFunctions has returned, the function that a
\* createFunction or updateFunction call of the run deployed holds the text of
\* the desired request file as requestMappingTemplate and the text of the
\* desired response file as responseMappingTemplate; and a function whose
\* desired response text differs from the deployed responseMappingTemplate was
\* classified update.
C22_TemplatesSent ==
    (run.op = "default" /\ pc = "createOrUpdateApiKeys") =>
      \A i \in DOMAIN run.functionsToDeploy :
         LET func == run.inputs.functions[i]
             item == run.functionsToDeploy[i]
         IN  /\ item.mode \in {"create", "update"} =>
                  \A d \in remote.functions :
                     (d.apiId = config.apiId /\ d.functionId = config.functions[i].functionId)
                     => /\ d.requestMappingTemplate = TemplateText(func.request)
                        /\ d.responseMappingTemplate = TemplateText(func.response)
             /\ (\E d \in run.deployedFunctions :
                    /\ d.functionId = item.id
                    /\ d.responseMappingTemplate # TemplateText(func.response))
                => item.mode = "update"

\* the apis the provider held when createOrUpdateGraphqlApi began that have the
\* apiId of the prior state, and those that have the desired name
ApisById == {a \in run.graphqlApis : a.apiId = run.startState.apiId}
ApisByName == {a \in run.graphqlApis : a.name = run.inputs.name}

\* C23: once createOrUpdateGraphqlApi has run, it has called getGraphqlApi
\* exactly when the prior state records an apiId; it has called
\* createGraphqlApi only when no api has the recorded apiId and none has the
\* desired name; it has called at most one of createGraphqlApi and
\* updateGraphqlApi, the update only when the api found differs from the
\* desired one in its input fields; and when its getGraphqlApi or
\* listGraphqlApis call was rejected with another error than NotFoundException
\* it has thrown that error and changed nothing.
C23_CreateOrUpdateGraphqlApi ==
    (run.op = "default" /\ StepDone("createOrUpdateGraphqlApi")) =>
      /\ CallsOf("getGraphqlApi") # {} <=> run.startState.apiId # NoId
      /\ CallsOf("createGraphqlApi") # {} => (ApisById = {} /\ ApisByName = {})
      /\ Cardinality(CallsOf("createGraphqlApi") \cup CallsOf("updateGraphqlApi")) <= 1
      /\ CallsOf("updateGraphqlApi") # {} =>
           \E a \in (IF ApisById # {} THEN ApisById ELSE ApisByName) :
              \/ a.name # run.inputs.name
              \/ a.authenticationType # run.inputs.authenticationType
      /\ (/\ run.failedAt = "createOrUpdateGraphqlApi"
          /\ calls[Len(calls)].op \in {"getGraphqlApi", "listGraphqlApis"}) =>
           /\ run.error = "Other"
           /\ CallsOf("createGraphqlApi") \cup CallsOf("updateGraphqlApi") = {}
           /\ ~run.drift => remote.apis = run.graphqlApis
      /\ (ApisById = {} /\ run.startState.apiId # NoId /\ run.failedAt = Nil) =>
           CallsOf("listGraphqlApis") # {}

\* a run whose recorded apiId the provider no longer holds, with no api of the
\* desired name: getGraphqlApi found nothing and the api was created
C23_Witness ==
    /\ run.op = "default"
    /\ "createOrUpdateGraphqlApi" \in Range(run.steps)
    /\ run.startState.apiId # NoId
    /\ ApisById = {}
    /\ CallsOf("getGraphqlApi") # {}
    /\ CallsOf("createGraphqlApi") # {}

====
